---------------------------- MODULE Spec2Model ----------------------------
(***************************************************************************)
(* Model of lib/passport-atlassian-oauth/strategy.js: the Strategy         *)
(* constructor and Strategy.prototype.userProfile.                         *)
(*                                                                         *)
(* JavaScript runs every handler to completion, so one action is one turn  *)
(* of the event loop: the constructor call, the userProfile call with all  *)
(* that happens synchronously inside it, and each later invocation of a    *)
(* transport callback.  The transport primitive _performSecureRequest and  *)
(* the completion callback done are the environment: their behaviour is    *)
(* chosen by the actions' inputs.                                          *)
(***************************************************************************)
EXTENDS Integers, Sequences, FiniteSets, TLC

VARIABLES strategy, supplied, fetch

vars == <<strategy, supplied, fetch>>

(***************************************************************************)
(* Bounds.                                                                 *)
(***************************************************************************)
NumFetches == 2

Fetches == 1..NumFetches

(***************************************************************************)
(* JavaScript values.                                                      *)
(***************************************************************************)
Undefined == [type |-> "undefined"]

Null == [type |-> "null"]

Str(s) == [type |-> "string", val |-> s]

Obj(props) == [type |-> "object", props |-> props]

EmptyObject == Obj(<<>>)

\* No exception: the value of a completed call that did not throw.
NoFault == [type |-> "none"]

\* ToBoolean: undefined, null and the empty string are falsy.
ToBoolean(v) ==
    CASE v.type = "undefined" -> FALSE
      [] v.type = "null" -> FALSE
      [] v.type = "string" -> v.val # ""
      [] OTHER -> TRUE

\* a || b
Or(a, b) == IF ToBoolean(a) THEN a ELSE b

\* ToStr, as string concatenation applies it to an operand.
ToStr(v) ==
    CASE v.type = "undefined" -> "undefined"
      [] v.type = "null" -> "null"
      [] v.type = "string" -> v.val
      [] OTHER -> "[object Object]"

\* a + b on strings: both operands converted, then concatenated as they are.
Plus(a, b) == Str(ToStr(a) \o ToStr(b))

\* o.k: a property that is absent reads as undefined.
Get(o, k) == IF k \in DOMAIN o.props THEN o.props[k] ELSE Undefined

\* o.k = v
Put(o, k, v) ==
    Obj([x \in (DOMAIN o.props) \cup {k} |-> IF x = k THEN v ELSE o.props[x]])

\* new Error(message)
Error(message) == [type |-> "error", name |-> "Error", message |-> message]

\* new InternalOAuthError(message, err)
InternalOAuthError(message, err) ==
    [type |-> "error", name |-> "InternalOAuthError", message |-> message,
     oauthError |-> err]

(***************************************************************************)
(* The Strategy constructor.                                               *)
(***************************************************************************)
RequestTokenPath == Str("/plugins/servlet/oauth/request-token")

AccessTokenPath == Str("/plugins/servlet/oauth/access-token")

UserAuthorizationPath == Str("/plugins/servlet/oauth/authorize")

StrategyName == "atlassian-oauth"

\* A fault the base constructor OAuthStrategy raises (it validates its own
\* options); whether it does is the environment's choice.
EngineFault == [type |-> "error", name |-> "EngineError", message |-> "OAuthStrategy"]

\* The object a constructor call starts from, and what is left of it when the
\* constructor throws.
Blank(thrown) ==
    [status |-> IF thrown = NoFault THEN "new" ELSE "failed",
     name |-> Undefined, _applicationURL |-> Undefined,
     _oauth |-> Undefined, thrown |-> thrown]

RequiresApplicationURL ==
    Error("Atlassian Oauth Strategy requires a applicationURL option")

RequiresCallbackURL ==
    Error("Atlassian Oauth Strategy requires a callbackURL option")

\* An endpoint option the caller left out, on its own.
DerivedWrongBase(options, k, path) ==
    Or(Get(options, k), Plus(Get(options, "callbackURL"), path))

\* options.k = options.k || options.applicationURL + path
Derived(options, k, path) ==
    Or(Get(options, k), Plus(Get(options, "applicationURL"), path))

\* Lines 48-51: the options handed to the base constructor.
EngineOptions(options) ==
    LET o1 == Put(options, "requestTokenURL",
                  Derived(options, "requestTokenURL", RequestTokenPath))
        o2 == Put(o1, "accessTokenURL",
                  Derived(o1, "accessTokenURL", AccessTokenPath))
        o3 == Put(o2, "userAuthorizationURL",
                  Derived(o2, "userAuthorizationURL", UserAuthorizationPath))
    IN  Put(o3, "signatureMethod",
            Or(Get(o3, "signatureMethod"), Str("RSA-SHA1")))

\* if (!options.k) throw ...: the first required option that is missing.
MissingOnlyApplicationURL(options) ==
    IF ~ToBoolean(Get(options, "applicationURL"))
    THEN RequiresApplicationURL ELSE NoFault

Missing(options) ==
    IF ~ToBoolean(Get(options, "applicationURL")) THEN RequiresApplicationURL
    ELSE IF ~ToBoolean(Get(options, "callbackURL")) THEN RequiresCallbackURL
    ELSE NoFault

\* function Strategy(options, verify): the instance after the call.
Strategy(optionsArg, engineThrows) ==
    LET options == Or(optionsArg, EmptyObject)
        full == EngineOptions(options)
    IN  IF Missing(options) # NoFault THEN Blank(Missing(options))
        ELSE IF engineThrows THEN Blank(EngineFault)
        ELSE [status |-> "constructed",
              name |-> Str(StrategyName),
              _applicationURL |-> Get(full, "applicationURL"),
              _oauth |-> full,
              thrown |-> NoFault]

(***************************************************************************)
(* Inputs of the constructor.                                              *)
(***************************************************************************)
ApplicationURLs ==
    {Undefined, Str(""), Str("https://example.atlassian.net"),
     Str("http://stash.local/")}

CallbackURLs == {Undefined, Str(""), Str("http://app.local/cb")}

Overrides == {Undefined, Str(""), Str("https://sso.local/oauth")}

SignatureMethods == {Undefined, Str("HMAC-SHA1")}

OptionKeys ==
    {"applicationURL", "callbackURL", "requestTokenURL", "accessTokenURL",
     "userAuthorizationURL", "signatureMethod", "consumerKey"}

\* An options object holds the properties the caller set.
MakeOptions(a, c, r, t, u, s) ==
    LET all == [k \in OptionKeys |->
                   CASE k = "applicationURL" -> a
                     [] k = "callbackURL" -> c
                     [] k = "requestTokenURL" -> r
                     [] k = "accessTokenURL" -> t
                     [] k = "userAuthorizationURL" -> u
                     [] k = "signatureMethod" -> s
                     [] OTHER -> Str("sample-nodejs-app")]
        set == {k \in OptionKeys : all[k] # Undefined}
    IN  Obj([k \in set |-> all[k]])

OptionsArgs ==
    {Undefined} \cup
    {MakeOptions(a, c, r, t, u, s) :
        a \in ApplicationURLs, c \in CallbackURLs, r \in Overrides,
        t \in Overrides, u \in Overrides, s \in SignatureMethods}

(***************************************************************************)
(* JSON.parse, on a response text given as its sequence of lexical tokens. *)
(* The grammar covered: a scalar (string, number, true, false, null) or an *)
(* object whose members have scalar values.                                *)
(***************************************************************************)
TokString(s) == [k |-> "string", v |-> s]

TokWord(s) == [k |-> "word", v |-> s]

TokNumber(s) == [k |-> "number", v |-> s]

TokPunct(s) == [k |-> "punct", v |-> s]

\* A response body that is parsed: a string, held as its tokens.
Text(tokens) == [type |-> "string", text |-> tokens]

SyntaxError ==
    [type |-> "error", name |-> "SyntaxError", message |-> "Unexpected token"]

TypeError ==
    [type |-> "error", name |-> "TypeError",
     message |-> "Cannot read property of null"]

Returned(v) == [thrown |-> NoFault, value |-> v]

Thrown(e) == [thrown |-> e, value |-> Undefined]

IsScalarToken(t) ==
    \/ t.k \in {"string", "number"}
    \/ t.k = "word" /\ t.v \in {"null", "true", "false"}

ScalarValue(t) ==
    CASE t.k = "string" -> Str(t.v)
      [] t.k = "number" -> [type |-> "number", val |-> t.v]
      [] t.v = "null" -> Null
      [] OTHER -> [type |-> "boolean", val |-> (t.v = "true")]

\* The members of an object after its opening brace, up to and including the
\* closing brace; a later member of the same name replaces an earlier one.
RECURSIVE ParseMembers(_, _)
ParseMembers(toks, acc) ==
    IF Len(toks) < 4 THEN Thrown(SyntaxError)
    ELSE IF ~(/\ toks[1].k = "string"
              /\ toks[2] = TokPunct(":")
              /\ IsScalarToken(toks[3]))
         THEN Thrown(SyntaxError)
    ELSE LET obj == Put(acc, toks[1].v, ScalarValue(toks[3]))
         IN  IF toks[4] = TokPunct("}")
             THEN IF Len(toks) = 4 THEN Returned(obj) ELSE Thrown(SyntaxError)
             ELSE IF toks[4] = TokPunct(",")
                  THEN ParseMembers(SubSeq(toks, 5, Len(toks)), obj)
                  ELSE Thrown(SyntaxError)

\* JSON.parse(body)
JSONparse(body) ==
    LET toks == body.text
    IN  IF Len(toks) = 0 THEN Thrown(SyntaxError)
        ELSE IF toks[1] = TokPunct("{")
             THEN IF Len(toks) = 2 /\ toks[2] = TokPunct("}")
                  THEN Returned(EmptyObject)
                  ELSE ParseMembers(Tail(toks), EmptyObject)
        ELSE IF Len(toks) = 1 /\ IsScalarToken(toks[1])
             THEN Returned(ScalarValue(toks[1]))
        ELSE Thrown(SyntaxError)

\* json.k: reading a property of null or undefined throws; a primitive has none
\* of the properties read here.
Prop(json, k) ==
    IF json.type \in {"null", "undefined"} THEN Thrown(TypeError)
    ELSE IF json.type = "object" THEN Returned(Get(json, k))
    ELSE Returned(Undefined)

(***************************************************************************)
(* Strategy.prototype.userProfile.                                         *)
(***************************************************************************)
WhoamiPath == Str("/plugins/servlet/applinks/whoami")

UsersPath == Str("/rest/api/1.0/users/")

\* What one invocation leaves behind, in order.
EvRequest(step, url, token, tokenSecret) ==
    [ev |-> "request", step |-> step, method |-> "GET", url |-> url,
     token |-> token, tokenSecret |-> tokenSecret]

EvThrow(step, fault) == [ev |-> "throw", step |-> step, fault |-> fault]

EvCallback(step, sync, err, body) ==
    [ev |-> "callback", step |-> step, sync |-> sync, err |-> err,
     body |-> body]

EvDone(err, profile) == [ev |-> "done", err |-> err, profile |-> profile]

EvEscape(fault, to) == [ev |-> "escape", fault |-> fault, to |-> to]

Log(f, e) == [f EXCEPT !.trace = Append(@, e)]

\* A fault of the transport primitive, and one of the completion callback.
TransportFault ==
    [type |-> "error", name |-> "Error", message |-> "signing failed"]

DoneFault ==
    [type |-> "error", name |-> "Error", message |-> "thrown by done"]

\* The result of running a piece of code on an invocation: its state after,
\* and the exception the code ended with.
Ran(f, thrown) == [f |-> f, thrown |-> thrown]

\* done(err, profile): the callback is the caller's, and may throw.
done(f, err, profile) ==
    Ran(Log(f, EvDone(err, profile)),
        IF f.doneThrows THEN DoneFault ELSE NoFault)

\* Lines 101-113 with the fields taken from one another.
ProfileSwapped(token, tokenSecret, body, json) ==
    [provider |-> Str(StrategyName),
     id |-> Prop(json, "name").value,
     username |-> Prop(json, "slug").value,
     displayName |-> Prop(json, "displayName").value,
     avatarUrls |-> Prop(json, "avatarUrls").value,
     emails |-> <<[value |-> Prop(json, "emailAddress").value]>>,
     _raw |-> body,
     _json |-> json,
     token |-> tokenSecret,
     tokenSecret |-> token]

\* Lines 101-113: the profile, for a json whose properties can be read.
Profile(token, tokenSecret, body, json) ==
    [provider |-> Str(StrategyName),
     id |-> Prop(json, "name").value,
     username |-> Prop(json, "name").value,
     displayName |-> Prop(json, "displayName").value,
     avatarUrls |-> Prop(json, "slug").value,
     emails |-> <<[value |-> Prop(json, "emailAddress").value]>>,
     _raw |-> body,
     _json |-> json,
     token |-> token,
     tokenSecret |-> tokenSecret]

\* Lines 95-115: the callback of the profile request.
ProfileCallback(f, err, body) ==
    IF ToBoolean(err)
    THEN done(f, InternalOAuthError("failed to fetch user profile", err),
              Undefined)
    ELSE LET parsed == JSONparse(body)
         IN  IF parsed.thrown # NoFault THEN Ran(f, parsed.thrown)
             ELSE IF Prop(parsed.value, "name").thrown # NoFault
                  THEN Ran(f, Prop(parsed.value, "name").thrown)
             ELSE done(f, Null,
                       Profile(f.token, f.tokenSecret, body, parsed.value))

\* Line 95: _performSecureRequest for the profile. The primitive throws, or
\* invokes the callback before it returns (what the callback throws then
\* passes through it), or returns and invokes the callback later.
ProfileRequest(f, url, t) ==
    LET f1 == Log(f, EvRequest(2, url, f.token, f.tokenSecret))
    IN  CASE t.mode = "throw" ->
               Ran(Log(f1, EvThrow(2, TransportFault)), TransportFault)
          [] t.mode = "sync" ->
               ProfileCallback(Log(f1, EvCallback(2, TRUE, t.err, t.body)),
                               t.err, t.body)
          [] OTHER -> Ran([f1 EXCEPT !.pc = "wait2"], NoFault)

\* Lines 94-118 without the catch.
TryProfileRequestNoCatch(f, url, t) == ProfileRequest(f, url, t)

\* Lines 94-118: try { ... } catch (e) { done(e); }
TryProfileRequest(f, url, t) ==
    LET r == ProfileRequest(f, url, t)
    IN  IF r.thrown # NoFault THEN done(r.f, r.thrown, Undefined) ELSE r

\* Line 92 with the username left out.
ProfileResourceNoUser(applicationURL, username) ==
    Plus(applicationURL, UsersPath)

\* Line 92: stashProfileResource
ProfileResource(applicationURL, username) ==
    Plus(Plus(applicationURL, UsersPath), username)

\* Lines 86-119 without the return in front of done.
WhoamiCallbackNoReturn(f, err, body, t2) ==
    LET r == IF ToBoolean(err)
             THEN done(f, InternalOAuthError("failed to fetch username", err),
                       Undefined)
             ELSE Ran(f, NoFault)
    IN  IF r.thrown # NoFault THEN r
        ELSE TryProfileRequest([r.f EXCEPT !.username = body],
                 ProfileResource(strategy._applicationURL, body), t2)

\* Lines 86-119: the callback of the whoami request.
WhoamiCallback(f, err, body, t2) ==
    IF ToBoolean(err)
    THEN done(f, InternalOAuthError("failed to fetch username", err),
              Undefined)
    ELSE TryProfileRequest([f EXCEPT !.username = body],
             ProfileResource(strategy._applicationURL, body), t2)

\* Line 86: _performSecureRequest for the username.
WhoamiRequest(f, url, t1, t2) ==
    LET f1 == Log(f, EvRequest(1, url, f.token, f.tokenSecret))
    IN  CASE t1.mode = "throw" ->
               Ran(Log(f1, EvThrow(1, TransportFault)), TransportFault)
          [] t1.mode = "sync" ->
               WhoamiCallback(Log(f1, EvCallback(1, TRUE, t1.err, t1.body)),
                              t1.err, t1.body, t2)
          [] OTHER -> Ran([f1 EXCEPT !.pc = "wait1"], NoFault)

\* Lines 84-122: try { ... } catch (e) { done(e); }
userProfile(f, t1, t2) ==
    LET r == WhoamiRequest(f, Plus(strategy._applicationURL, WhoamiPath),
                           t1, t2)
    IN  IF r.thrown # NoFault THEN done(r.f, r.thrown, Undefined) ELSE r

\* An exception that leaves the turn: to the caller of userProfile, or to the
\* transport code that invoked a callback.
Escape(r, to) ==
    IF r.thrown # NoFault THEN Log(r.f, EvEscape(r.thrown, to)) ELSE r.f

(***************************************************************************)
(* Inputs of userProfile: credentials, the behaviour of done, and what the *)
(* transport does with each request.                                       *)
(***************************************************************************)
Credentials ==
    {[token |-> Str("tokA"), tokenSecret |-> Str("secA")],
     [token |-> Str("tokB"), tokenSecret |-> Str("secB")]}

WhoamiBodies == {Str("jdoe"), Str("a smith")}

SocketError ==
    [type |-> "error", name |-> "Error", message |-> "socket hang up"]

StatusError == Obj([statusCode |-> [type |-> "number", val |-> "401"]])

TransportErrors == {SocketError, StatusError}

Member(k, v) == <<TokString(k), TokPunct(":"), TokString(v)>>

UserBody(name, displayName, slug, emailAddress) ==
    Text(<<TokPunct("{")>> \o Member("name", name) \o <<TokPunct(",")>>
         \o Member("displayName", displayName) \o <<TokPunct(",")>>
         \o Member("slug", slug) \o <<TokPunct(",")>>
         \o Member("emailAddress", emailAddress) \o <<TokPunct("}")>>)

JdoeBody == UserBody("jdoe", "Jane Doe", "jdoe-slug", "jane@example.com")

AsmithBody == UserBody("a smith", "Al Smith", "a_smith", "al@example.com")

\* {"name":"jdoe"}
PartialBody == Text(<<TokPunct("{")>> \o Member("name", "jdoe")
                    \o <<TokPunct("}")>>)

\* not-json
NotJsonBody == Text(<<TokWord("not-json")>>)

\* {"name":"jdoe"
TruncatedBody == Text(<<TokPunct("{")>> \o Member("name", "jdoe"))

\* null
NullBody == Text(<<TokWord("null")>>)

\* "jdoe"
StringBody == Text(<<TokString("jdoe")>>)

EmptyBody == Text(<<>>)

ProfileBodies ==
    {JdoeBody, AsmithBody, PartialBody, NotJsonBody, TruncatedBody, NullBody,
     StringBody, EmptyBody}

\* What a callback is invoked with.
Failure(err) == [err |-> err, body |-> Undefined]

Success(body) == [err |-> Null, body |-> body]

WhoamiResults ==
    {Failure(e) : e \in TransportErrors} \cup {Success(b) : b \in WhoamiBodies}

ProfileResults ==
    {Failure(e) : e \in TransportErrors} \cup {Success(b) : b \in ProfileBodies}

\* What the primitive does when called: with "sync", the result it invokes
\* the callback with. A request is answered once: by the fault thrown, or by
\* one invocation of its callback.
Behaviours(results) ==
    {[mode |-> "throw", err |-> Null, body |-> Undefined],
     [mode |-> "async", err |-> Null, body |-> Undefined]}
    \cup {[mode |-> "sync", err |-> r.err, body |-> r.body] : r \in results}

IdleFetch ==
    [pc |-> "idle", token |-> Undefined, tokenSecret |-> Undefined,
     doneThrows |-> FALSE, username |-> Undefined, trace |-> <<>>,
     args |-> Undefined]

Init ==
    /\ strategy = Blank(NoFault)
    /\ supplied = Undefined
    /\ fetch = [i \in Fetches |-> IdleFetch]

\* new Strategy(options, verify)
NewStrategy(optionsArg, engineThrows) ==
    /\ strategy.status = "new"
    /\ strategy' = Strategy(optionsArg, engineThrows)
    /\ supplied' = optionsArg
    /\ UNCHANGED fetch

NextConstruct ==
    \E o \in OptionsArgs, e \in BOOLEAN : NewStrategy(o, e)

SpecConstruct == Init /\ [][NextConstruct]_vars

(***************************************************************************)
(* The turns of an invocation.                                             *)
(***************************************************************************)
\* What the callbacks of invocation i close over.
ClosureShared(i) ==
    LET started == {j \in Fetches : fetch[j].pc # "idle"}
        last == CHOOSE j \in started : \A k \in started : k <= j
    IN  [fetch[i] EXCEPT !.token = fetch[last].token,
                         !.tokenSecret = fetch[last].tokenSecret,
                         !.username = fetch[last].username]

Closure(i) == fetch[i]

\* strategy.userProfile(token, tokenSecret, params, done)
UserProfile(i, cred, doneThrows, t1, t2) ==
    /\ strategy.status = "constructed"
    /\ fetch[i].pc = "idle"
    /\ LET f == [IdleFetch EXCEPT !.pc = "ended", !.token = cred.token,
                                  !.tokenSecret = cred.tokenSecret,
                                  !.doneThrows = doneThrows,
                                  !.args = cred]
       IN  fetch' = [fetch EXCEPT ![i] = Escape(userProfile(f, t1, t2), "caller")]
    /\ UNCHANGED <<strategy, supplied>>

\* The transport invokes the whoami callback, in a later turn.
DeliverWhoami(i, res, t2) ==
    /\ fetch[i].pc = "wait1"
    /\ LET f == Log([Closure(i) EXCEPT !.pc = "ended"],
                    EvCallback(1, FALSE, res.err, res.body))
       IN  fetch' = [fetch EXCEPT ![i] =
                        Escape(WhoamiCallback(f, res.err, res.body, t2),
                               "transport")]
    /\ UNCHANGED <<strategy, supplied>>

\* The transport invokes the profile callback, in a later turn.
DeliverProfile(i, res) ==
    /\ fetch[i].pc = "wait2"
    /\ LET f == Log([Closure(i) EXCEPT !.pc = "ended"],
                    EvCallback(2, FALSE, res.err, res.body))
       IN  fetch' = [fetch EXCEPT ![i] =
                        Escape(ProfileCallback(f, res.err, res.body),
                               "transport")]
    /\ UNCHANGED <<strategy, supplied>>

\* The instance the invocations run on: constructed from options that pass.
FetchOptions ==
    {MakeOptions(a, Str("http://app.local/cb"), Undefined, Undefined,
                 Undefined, Undefined) :
        a \in {Str("https://example.atlassian.net"), Str("http://stash.local/")}}

InitFetch ==
    /\ \E o \in FetchOptions :
          /\ strategy = Strategy(o, FALSE)
          /\ supplied = o
    /\ fetch = [i \in Fetches |-> IdleFetch]

\* One invocation, under every behaviour of the transport and of done.
NextFetch ==
    \/ \E cred \in Credentials, d \in BOOLEAN,
          t1 \in Behaviours(WhoamiResults), t2 \in Behaviours(ProfileResults) :
          UserProfile(1, cred, d, t1, t2)
    \/ \E res \in WhoamiResults, t2 \in Behaviours(ProfileResults) :
          DeliverWhoami(1, res, t2)
    \/ \E res \in ProfileResults : DeliverProfile(1, res)

SpecFetch == InitFetch /\ [][NextFetch]_vars

\* Invocations running concurrently on one instance: their turns interleave.
\* Here done returns, and the profile request is answered in a later turn or
\* throws.
ConcurrentWhoamiResults == {Success(b) : b \in WhoamiBodies}

ConcurrentProfileResults ==
    {Success(JdoeBody), Success(AsmithBody), Success(NotJsonBody)}

NextConcurrent ==
    \E i \in Fetches :
       \/ \E cred \in Credentials,
             t1 \in Behaviours(ConcurrentWhoamiResults),
             t2 \in Behaviours({}) :
             UserProfile(i, cred, FALSE, t1, t2)
       \/ \E res \in ConcurrentWhoamiResults, t2 \in Behaviours({}) :
             DeliverWhoami(i, res, t2)
       \/ \E res \in ConcurrentProfileResults : DeliverProfile(i, res)

SpecConcurrent == InitFetch /\ [][NextConcurrent]_vars

(***************************************************************************)
(* What an invocation's trace shows.                                       *)
(***************************************************************************)
Started == {i \in Fetches : fetch[i].pc # "idle"}

Trace(i) == fetch[i].trace

\* The places of the trace holding an event of one kind.
At(i, kind) == {k \in 1..Len(Trace(i)) : Trace(i)[k].ev = kind}

AtStep(i, kind, step) == {k \in At(i, kind) : Trace(i)[k].step = step}

\* The callback of a step was invoked with an error: one of the transport's.
ReportedError(i, k) == Trace(i)[k].err \in TransportErrors

\* The callback of a step was invoked without an error.
ReportedSuccess(i, k) == Trace(i)[k].err = Null

ApplicationURLText == strategy._applicationURL.val

\* C1: done is invoked at most once in every invocation, whatever the transport
\* and done itself do.
C1_DoneAtMostOnce ==
    \A i \in Fetches : Cardinality(At(i, "done")) <= 1

\* C2: a profile body that is not valid JSON reaches done as an error with no
\* profile, and the parse fault does not leave the transport callback, whether
\* the callback ran inside the dispatch or in a later turn.
C2_ParseFailureThroughDone ==
    \A i \in Fetches : \A k \in AtStep(i, "callback", 2) :
        (ReportedSuccess(i, k) /\ JSONparse(Trace(i)[k].body).thrown # NoFault)
        => /\ \E d \in At(i, "done") :
                 /\ d > k
                 /\ Trace(i)[d].err = SyntaxError
                 /\ Trace(i)[d].profile = Undefined
           /\ \A x \in At(i, "escape") : Trace(i)[x].fault # SyntaxError

\* C3: an invocation whose requests have all thrown or called back has invoked
\* done.
C3_EndedImpliesDone ==
    \A i \in Fetches : fetch[i].pc = "ended" => At(i, "done") # {}

\* C4: a whoami error is passed to done at once, wrapped with the message
\* 'failed to fetch username', with no profile, and no profile request is
\* dispatched.
C4_WhoamiFailure ==
    \A i \in Fetches : \A k \in AtStep(i, "callback", 1) :
        ReportedError(i, k)
        => /\ k < Len(Trace(i))
           /\ Trace(i)[k + 1] =
                 [ev |-> "done",
                  err |-> [type |-> "error", name |-> "InternalOAuthError",
                           message |-> "failed to fetch username",
                           oauthError |-> Trace(i)[k].err],
                  profile |-> Undefined]
           /\ AtStep(i, "request", 2) = {}

C4_Witness ==
    \E i \in Fetches : \E k \in AtStep(i, "callback", 1) :
        /\ ReportedError(i, k)
        /\ ~Trace(i)[k].sync
        /\ At(i, "done") # {}
        /\ fetch[i].pc = "ended"

\* The member k of a parsed JSON value, as a property read gives it.
JsonMember(json, k) ==
    IF json.type = "object" /\ k \in DOMAIN json.props
    THEN json.props[k] ELSE Undefined

\* The profile the mapping asks for, but for the two raw fields.
Mapped(p, i, json) ==
    /\ p.provider = Str("atlassian-oauth")
    /\ p.id = JsonMember(json, "name")
    /\ p.username = JsonMember(json, "name")
    /\ p.displayName = JsonMember(json, "displayName")
    /\ p.avatarUrls = JsonMember(json, "slug")
    /\ p.emails = <<[value |-> JsonMember(json, "emailAddress")]>>
    /\ p.token = fetch[i].args.token
    /\ p.tokenSecret = fetch[i].args.tokenSecret

\* The profile callbacks that were given a body of valid JSON.
ValidProfile(i) ==
    {k \in AtStep(i, "callback", 2) :
        ReportedSuccess(i, k) /\ JSONparse(Trace(i)[k].body).thrown = NoFault}

C6_NoCrossContamination ==
    \A i \in Fetches : \A d \in At(i, "done") :
        Trace(i)[d].profile # Undefined
        => LET p == Trace(i)[d].profile
           IN  /\ p.token = fetch[i].args.token
               /\ p.tokenSecret = fetch[i].args.tokenSecret
               /\ \E w \in AtStep(i, "callback", 1) :
                  \E r \in AtStep(i, "request", 2) :
                  \E c \in AtStep(i, "callback", 2) :
                     /\ w < r /\ r < c /\ c < d
                     /\ Trace(i)[r].url.val =
                           ApplicationURLText \o "/rest/api/1.0/users/"
                              \o Trace(i)[w].body.val
                     /\ Trace(i)[r].token = fetch[i].args.token
                     /\ Trace(i)[r].tokenSecret = fetch[i].args.tokenSecret
                     /\ p["_raw"] = Trace(i)[c].body
                     /\ Mapped(p, i, JSONparse(Trace(i)[c].body).value)

\* Two invocations in flight together, with different credentials and users:
\* the first got its profile while the second waits for its own.
C6_Witness ==
    /\ fetch[2].pc = "wait2"
    /\ fetch[1].args # fetch[2].args
    /\ fetch[1].username # fetch[2].username
    /\ \E d \in At(1, "done") :
          /\ Trace(1)[d].profile # Undefined
          /\ Trace(1)[d].profile.id = Str("a smith")
    /\ \A k \in At(1, "callback") : ~Trace(1)[k].sync

\* An option the caller left out or gave as the empty string.
MissingOrEmpty(k) ==
    \/ supplied = Undefined
    \/ k \notin DOMAIN supplied.props
    \/ supplied.props[k] = Str("")

Endpoints ==
    [requestTokenURL |-> "/plugins/servlet/oauth/request-token",
     accessTokenURL |-> "/plugins/servlet/oauth/access-token",
     userAuthorizationURL |-> "/plugins/servlet/oauth/authorize"]

DerivedFrom(k) == Str(ApplicationURLText \o Endpoints[k])

\* C8 as stated: every string the caller supplies for an endpoint is passed
\* on as it is, and an endpoint not supplied is derived.
C8_Original ==
    strategy.status = "constructed"
    => \A k \in DOMAIN Endpoints :
          strategy._oauth.props[k] =
             IF k \in DOMAIN supplied.props THEN supplied.props[k]
             ELSE DerivedFrom(k)

\* C8, amended: every non-empty string the caller supplies for an endpoint is
\* passed on as it is; an endpoint left out or given as the empty string is
\* derived from applicationURL, each endpoint on its own.
C8_EndpointURLs ==
    strategy.status = "constructed"
    => \A k \in DOMAIN Endpoints :
          strategy._oauth.props[k] =
             IF MissingOrEmpty(k) THEN DerivedFrom(k) ELSE supplied.props[k]

C8_Witness ==
    /\ strategy.status = "constructed"
    /\ ApplicationURLText = "http://stash.local/"
    /\ ~MissingOrEmpty("accessTokenURL")
    /\ strategy._oauth.props["accessTokenURL"] = Str("https://sso.local/oauth")
    /\ "requestTokenURL" \notin DOMAIN supplied.props
    /\ strategy._oauth.props["requestTokenURL"] =
          Str("http://stash.local//plugins/servlet/oauth/request-token")
    /\ "userAuthorizationURL" \in DOMAIN supplied.props
    /\ supplied.props["userAuthorizationURL"] = Str("")
    /\ strategy._oauth.props["userAuthorizationURL"] =
          Str("http://stash.local//plugins/servlet/oauth/authorize")

\* C9: a fault the transport throws when called is passed to done at once, with
\* no profile; it leaves neither userProfile nor a callback, and no request
\* follows it.
C9_DispatchFaultCaught ==
    \A i \in Fetches : \A k \in At(i, "throw") :
        /\ k < Len(Trace(i))
        /\ Trace(i)[k + 1] =
              [ev |-> "done", err |-> Trace(i)[k].fault, profile |-> Undefined]
        /\ \A x \in At(i, "escape") : Trace(i)[x].fault # Trace(i)[k].fault
        /\ \A r \in At(i, "request") : r < k

C9_Witness ==
    \E i \in Fetches : \E k \in AtStep(i, "throw", 2) :
        /\ \E w \in AtStep(i, "callback", 1) : ~Trace(i)[w].sync
        /\ fetch[i].pc = "ended"
        /\ At(i, "escape") = {}

\* C10: one whoami request; at most one profile request, dispatched after the
\* whoami callback reported success, for applicationURL +
\* '/rest/api/1.0/users/' + the whoami body as it is; no request after an
\* error or a fault.
C10_SequentialNoRetry ==
    \A i \in Started :
        /\ Cardinality(AtStep(i, "request", 1)) = 1
        /\ Cardinality(AtStep(i, "request", 2)) <= 1
        /\ \A r \in AtStep(i, "request", 2) :
              \E w \in AtStep(i, "callback", 1) :
                 /\ w < r
                 /\ ReportedSuccess(i, w)
                 /\ Trace(i)[r].url.val =
                       ApplicationURLText \o "/rest/api/1.0/users/"
                          \o Trace(i)[w].body.val
        /\ \A k \in At(i, "callback") \cup At(i, "throw") :
              (Trace(i)[k].ev = "throw" \/ ReportedError(i, k))
              => \A r \in At(i, "request") : r < k

C10_Witness ==
    \E i \in Started : \E r \in AtStep(i, "request", 2) :
        /\ Trace(i)[r].url =
              Str("http://stash.local//rest/api/1.0/users/a smith")
        /\ \E k \in AtStep(i, "callback", 2) : ReportedError(i, k)
        /\ fetch[i].pc = "ended"

=============================================================================
